---- MODULE Spec2Model ----
(***************************************************************************)
(* ScreenshotQueueManager (src/src/lib/screenshot-queue-manager.ts) as a   *)
(* state machine.  One step of the model is one run-to-completion segment  *)
(* of the JavaScript event loop: a public method called by the caller, the *)
(* continuation of processNext after one of its two awaits settles, or a   *)
(* retry timer firing.  Calls that a segment makes synchronously (the      *)
(* processNext() at the end of addScreenshot and of the finally block) are *)
(* part of the same step.                                                  *)
(***************************************************************************)
EXTENDS Naturals, Sequences, FiniteSets, Bags, TLC

\* ---------------------------------------------------------------- bounds
\* Number of addScreenshot calls explored.
MaxItems == 2
\* Retry timers that may be pending at the same time.
MaxTimers == 1
\* The observer's count of pipeline starts per item saturates here.
MaxAttempts == 3
\* Length of the callback array on() may build for one event kind.
MaxRegistrations == 2

Ids == 1..MaxItems
Paths == {"/test1.png"}
\* The values a caller configures.
MaxConcurrentValues == {1, 2}
RetryAttemptsValues == {0, 1}
RetryDelays == {1000}
\* error.message of a rejected stage: processWithAI/generateSolution without
\* window.electronAPI, and the rejection the test suite mocks.
Messages == {"Electron API not available", "Processing failed"}
Undefined == "undefined"

VARIABLES
    queue,            \* this.queue: sequence of ScreenshotItem
    processingQueue,  \* this.processingQueue: Set<string>
    retryCounts,      \* this.retryCounts: Map<string, number>
    config,           \* this.config
    calls,            \* bag of Solver promises processNext is awaiting
    timers,           \* bag of pending setTimeout callbacks: delay, and whose retry (if watched)
    nextId,           \* ids handed out so far + 1 (generateId)
    emitted,          \* events emitted by the last step, in order
    lastCall,         \* what the last step was
    listening,        \* the event kinds a recording listener is registered for
    history,          \* per id: the kinds of events that listener has seen
    attempts,         \* per id a test counts: how often processWithAI was started
    dispatchedUnder,  \* per id a test watches: this.config as it was at its last dispatch
    events,           \* eventEmitter.events: per event kind the array of callbacks
    delivered,        \* the callback invocations of the last step, in order
    returned,         \* the array the caller last got from getQueue(), by item id
    hook              \* useScreenshotQueue: whether it is mounted, its queue and isProcessing

vars == <<queue, processingQueue, retryCounts, config, calls, timers, nextId,
          emitted, lastCall, listening, history, attempts, dispatchedUnder,
          events, delivered, returned, hook>>

\* ------------------------------------------------------------ data model
NoMetadata == [problemStatement |-> Undefined, solution |-> Undefined, error |-> Undefined]

ScreenshotItem(id, path) ==
    [id |-> id, path |-> path, status |-> "pending", metadata |-> NoMetadata]

ConfigFields == {"maxConcurrent", "autoProcess", "retryAttempts", "retryDelay"}

QueueManagerConfig ==
    [maxConcurrent : MaxConcurrentValues, autoProcess : BOOLEAN,
     retryAttempts : RetryAttemptsValues, retryDelay : RetryDelays]

\* Partial<QueueManagerConfig>: the argument of updateConfig, naming no field
\* or one (an update of several fields is a sequence of these).
PartialConfig ==
    { [f \in S |-> c[f]] : c \in QueueManagerConfig,
                           S \in { T \in SUBSET ConfigFields : Cardinality(T) <= 1 } }

\* { ...this.config, ...newConfig }
Merge(old, new) ==
    [f \in ConfigFields |-> IF f \in DOMAIN new THEN new[f] ELSE old[f]]

\* Map<string, number>
EmptyMap == [x \in {} |-> 0]
MapGet(map, k) == IF k \in DOMAIN map THEN map[k] ELSE 0
MapSet(map, k, v) == [x \in DOMAIN map \cup {k} |-> IF x = k THEN v ELSE map[x]]
MapDelete(map, k) == [x \in DOMAIN map \ {k} |-> map[x]]

\* queue.findIndex(item => item.id === id), 0 for -1
RECURSIVE FindIndexFrom(_, _, _)
FindIndexFrom(q, id, i) ==
    IF i > Len(q) THEN 0
    ELSE IF q[i].id = id THEN i
    ELSE FindIndexFrom(q, id, i + 1)

FindIndex(q, id) == FindIndexFrom(q, id, 1)

\* Mutation of Splice: the element at the front is dropped, whatever index is.
Splice_Front(q, index) == [j \in 1..(Len(q) - 1) |-> q[j + 1]]

\* queue.splice(index, 1)
Splice(q, index) == [j \in 1..(Len(q) - 1) |-> IF j < index THEN q[j] ELSE q[j + 1]]

\* generateId(): `screenshot_${Date.now()}_${Math.random().toString(36).substr(2, 9)}`.
\* Date.now() is the millisecond the call is made in and the suffix is what the
\* random number generator gave; two ids are equal exactly when both parts are.
Timestamps == {0, 1}
Suffixes == {1, 2}
GenerateId(now, suffix) == now * (Cardinality(Suffixes) + 1) + suffix
GeneratedIds == { GenerateId(now, suffix) : now \in Timestamps, suffix \in Suffixes }

\* The simulated stages: what processWithAI and generateSolution resolve to.
ProblemStatement(path) == "Problem extracted from " \o path
SolutionCode(problemStatement) == "// Solution for: " \o problemStatement

\* ------------------------------------------------------------ the heap
\* The part of the state one segment reads and writes, threaded through the
\* operators below.
Heap ==
    [queue |-> queue, processingQueue |-> processingQueue, retryCounts |-> retryCounts,
     config |-> config, calls |-> calls, timers |-> timers, emitted |-> <<>>,
     listening |-> listening, history |-> history, attempts |-> attempts,
     dispatchedUnder |-> dispatchedUnder, events |-> events, delivered |-> <<>>,
     returned |-> returned, hook |-> hook]

Commit(m) ==
    /\ queue' = m.queue
    /\ processingQueue' = m.processingQueue
    /\ retryCounts' = m.retryCounts
    /\ config' = m.config
    /\ calls' = m.calls
    /\ timers' = m.timers
    /\ emitted' = m.emitted
    /\ listening' = m.listening
    /\ history' = m.history
    /\ attempts' = m.attempts
    /\ dispatchedUnder' = m.dispatchedUnder
    /\ events' = m.events
    /\ delivered' = m.delivered
    /\ returned' = m.returned
    /\ hook' = m.hook

EventKinds == {"itemAdded", "itemProcessing", "itemCompleted", "itemError", "itemRemoved"}

\* The listener a test registers with on(kind, ...): it records the kind of
\* every event it is called with, per item id (as the events array of the
\* test at lines 342-379 does); a repeated itemProcessing is recorded once.
Record(h, kind) ==
    IF kind = "itemProcessing" /\ Len(h) > 0 /\ h[Len(h)] = "itemProcessing"
    THEN h
    ELSE Append(h, kind)

\* Mutation of ForEach: the callbacks are called last registered first.
ForEach_Reversed(callbacks, kind, item, n) ==
    [i \in DOMAIN callbacks |->
       [callback |-> callbacks[Len(callbacks) + 1 - i], kind |-> kind, id |-> item.id, emit |-> n]]

\* this.events[event].forEach(callback => callback(data)) (line 15): the
\* invocations it makes, for the n-th emit of the step.
ForEach(callbacks, kind, item, n) ==
    [i \in DOMAIN callbacks |->
       [callback |-> callbacks[i], kind |-> kind, id |-> item.id, emit |-> n]]

\* A callback that throws when it is called, and the message of its error.
Throwing == 0
ListenerMessage == "Listener failed"

\* emit(kind, ...) throws: forEach (line 15) has no try around callback(data),
\* so the exception of a callback leaves forEach and emit.
Throws(m, kind) ==
    /\ kind \in DOMAIN m.events
    /\ \E i \in DOMAIN m.events[kind] : m.events[kind][i] = Throwing

\* The callbacks forEach gets to call: those up to the first one that throws.
CallbacksRun(callbacks) ==
    LET thrown == { i \in DOMAIN callbacks : callbacks[i] = Throwing } IN
    IF thrown = {} THEN callbacks
    ELSE SubSeq(callbacks, 1, CHOOSE i \in thrown : \A j \in thrown : i <= j)

\* The listeners useScreenshotQueue registers (useScreenshotQueue.ts lines
\* 29-61), applied to the hook's state h.  An element of the hook's queue is
\* the manager's own item object (live) until a map replaces it by a copy with
\* the status written in.
HookListener(h, kind, item) ==
    LET Mapped(status) ==
            [i \in DOMAIN h.queue |->
               IF h.queue[i].id = item.id
               THEN [id |-> item.id, live |-> FALSE, status |-> status]
               ELSE h.queue[i]]
    IN  CASE kind = "itemAdded" ->
               [h EXCEPT !.queue = Append(@, [id |-> item.id, live |-> TRUE, status |-> Undefined])]
          [] kind = "itemProcessing" ->
               [h EXCEPT !.queue = Mapped("processing"), !.isProcessing = TRUE]
          [] kind = "itemCompleted" ->
               [h EXCEPT !.queue = Mapped("completed"), !.isProcessing = FALSE]
          [] kind = "itemError" ->
               [h EXCEPT !.queue = Mapped("error"), !.isProcessing = FALSE]
          [] kind = "itemRemoved" ->
               [h EXCEPT !.queue = SelectSeq(@, LAMBDA q : q.id # item.id)]

\* eventEmitter.emit(kind, item): the listeners of that kind run.
Emit(m, kind, item) ==
    [m EXCEPT !.emitted = Append(@, [kind |-> kind, id |-> item.id, status |-> item.status]),
              !.history = IF kind \in m.listening /\ item.id \in DOMAIN @
                          THEN [@ EXCEPT ![item.id] = Record(@, kind)]
                          ELSE @,
              !.delivered = IF kind \in DOMAIN m.events
                            THEN @ \o ForEach(CallbacksRun(m.events[kind]), kind, item,
                                              Len(m.emitted) + 1)
                            ELSE @,
              !.hook = IF @.mounted THEN HookListener(@, kind, item) ELSE @]

\* Mutation of WriteItem: the written item moves to the back of the queue.
WriteItem_ToBack(q, item) ==
    LET i == FindIndex(q, item.id) IN
    IF i = 0 THEN q ELSE Append(Splice(q, i), item)

\* nextItem.<field> = ...: nextItem is the object processNext found in the
\* queue; once removeScreenshot or clearQueue dropped it from the queue the
\* write goes to an object only the closure still holds.
WriteItem(q, item) ==
    LET i == FindIndex(q, item.id) IN
    IF i = 0 THEN q ELSE [q EXCEPT ![i] = item]

\* ------------------------------------------------------------ processNext
\* Mutation of SlotsFull: the comparison off by one (> for >=).
SlotsFull_OffByOne(m) == Cardinality(m.processingQueue) > m.config.maxConcurrent

\* this.processingQueue.size >= this.config.maxConcurrent
SlotsFull(m) == Cardinality(m.processingQueue) >= m.config.maxConcurrent

\* this.queue.find(item => item.status === 'pending'), as an index; 0: none
RECURSIVE FindPendingFrom(_, _)
FindPendingFrom(q, i) ==
    IF i > Len(q) THEN 0
    ELSE IF q[i].status = "pending" THEN i
    ELSE FindPendingFrom(q, i + 1)

\* Mutation of FindPending: an item with status 'error' is picked up like a
\* pending one.
FindPending_OrError(q) ==
    LET found == { i \in DOMAIN q : q[i].status \in {"pending", "error"} } IN
    IF found = {} THEN 0 ELSE CHOOSE i \in found : \A j \in found : i <= j

\* Mutation of FindPending: an item with status 'completed' is picked up like
\* a pending one.
FindPending_OrCompleted(q) ==
    LET found == { i \in DOMAIN q : q[i].status \in {"pending", "completed"} } IN
    IF found = {} THEN 0 ELSE CHOOSE i \in found : \A j \in found : i <= j

\* Mutation of FindPending: an item with status 'processing' is picked up
\* like a pending one.
FindPending_OrProcessing(q) ==
    LET found == { i \in DOMAIN q : q[i].status \in {"pending", "processing"} } IN
    IF found = {} THEN 0 ELSE CHOOSE i \in found : \A j \in found : i <= j

\* Mutation of FindPending: the last pending item instead of the first.
FindPending_Last(q) ==
    LET pending == { i \in DOMAIN q : q[i].status = "pending" } IN
    IF pending = {} THEN 0 ELSE CHOOSE i \in pending : \A j \in pending : j <= i

FindPending(q) == FindPendingFrom(q, 1)

\* The awaited promise of a stage: which item's processNext awaits it, the
\* stage, and what the stage was called with.
SolverCall(item, stage, arg) ==
    [id |-> item.id, path |-> item.path, stage |-> stage, arg |-> arg]

\* A mocked processWithAI counts its calls (up to MaxAttempts) for the ids
\* the test watches.
Count(counts, id) ==
    IF id \in DOMAIN counts /\ counts[id] < MaxAttempts
    THEN [counts EXCEPT ![id] = @ + 1]
    ELSE counts

\* For the ids a test watches, its itemProcessing listener notes the config
\* that was in force when processNext picked the item.
Snapshot(seen, id, c) ==
    IF id \in DOMAIN seen THEN [seen EXCEPT ![id] = c] ELSE seen

\* Lines 74-80: mark the item found, announce it, start stage one.  The emit
\* of line 76 is before the try: when a listener throws, processNext ends
\* there (its promise rejects) and neither stage one nor the finally block runs.
Dispatch(m, i) ==
    LET item == [m.queue[i] EXCEPT !.status = "processing"]
        m1 == [m EXCEPT !.processingQueue = @ \cup {item.id}, !.queue[i] = item]
        m2 == Emit(m1, "itemProcessing", item)
    IN  IF Throws(m, "itemProcessing") THEN m2
        ELSE [m2 EXCEPT !.calls = @ (+) SetToBag({SolverCall(item, 1, item.path)}),
                        !.attempts = Count(@, item.id),
                        !.dispatchedUnder = Snapshot(@, item.id, m.config)]

\* Mutation of ProcessNext: the guard on the in-flight set is skipped.
ProcessNext_NoCapCheck(m) ==
    LET i == FindPending(m.queue) IN
    IF i = 0 THEN m ELSE Dispatch(m, i)

\* processNext() would find an item and the emit of line 76 would throw.
DispatchThrows(m) ==
    /\ ~SlotsFull(m)
    /\ FindPending(m.queue) # 0
    /\ Throws(m, "itemProcessing")

\* processNext() up to its first await.
ProcessNext(m) ==
    IF SlotsFull(m) THEN m
    ELSE LET i == FindPending(m.queue) IN
         IF i = 0 THEN m ELSE Dispatch(m, i)

\* Mutation of FinallyBlock: an item that has finished is taken out of the queue.
FinallyBlock_DropsFinished(m, id) ==
    LET i == FindIndex(m.queue, id)
        m1 == [m EXCEPT !.processingQueue = @ \ {id},
                        !.retryCounts = MapDelete(@, id),
                        !.queue = IF i # 0 /\ @[i].status \in {"completed", "error"}
                                  THEN Splice(@, i) ELSE @]
    IN  IF m1.config.autoProcess THEN ProcessNext(m1) ELSE m1

\* Mutation of FinallyBlock: retryCounts.delete(id) is left out.
FinallyBlock_KeepsCount(m, id) ==
    LET m1 == [m EXCEPT !.processingQueue = @ \ {id}]
    IN  IF m1.config.autoProcess THEN ProcessNext(m1) ELSE m1

\* Mutation of FinallyBlock: the freed slot is not backfilled.
FinallyBlock_NoBackfill(m, id) ==
    [m EXCEPT !.processingQueue = @ \ {id}, !.retryCounts = MapDelete(@, id)]

\* The finally block (lines 109-117); it also runs after the catch block's
\* early return.
FinallyBlock(m, id) ==
    LET m1 == [m EXCEPT !.processingQueue = @ \ {id},
                        !.retryCounts = MapDelete(@, id)]
    IN  IF m1.config.autoProcess THEN ProcessNext(m1) ELSE m1

\* The object the suspended processNext holds as nextItem.
NextItem(m, c) ==
    LET i == FindIndex(m.queue, c.id) IN
    IF i = 0
    THEN [id |-> c.id, path |-> c.path, status |-> "processing", metadata |-> NoMetadata]
    ELSE m.queue[i]

\* setTimeout(() => { this.processNext(); }, retryDelay) of the retry branch
\* (lines 99-101): the delay it was given and, for the ids a test watches,
\* the item whose retry it is (0 for the others: the callback names no item).
Timer(m, item, delay) ==
    [id |-> IF item.id \in DOMAIN m.dispatchedUnder THEN item.id ELSE 0, delay |-> delay]

\* The catch block's retry test (line 93).
CanRetry(m, id) == MapGet(m.retryCounts, id) < m.config.retryAttempts

\* Mutation of CatchBlock: the retry timer is set to the default delay of
\* line 39 instead of config.retryDelay.
CatchBlock_DefaultDelay(m, nextItem, message) ==
    IF CanRetry(m, nextItem.id)
    THEN LET item == [nextItem EXCEPT !.status = "pending"] IN
         [m EXCEPT !.retryCounts = MapSet(@, nextItem.id, MapGet(@, nextItem.id) + 1),
                   !.queue = WriteItem(@, item),
                   !.processingQueue = @ \ {nextItem.id},
                   !.timers = @ (+) SetToBag({Timer(m, item, 1000)})]
    ELSE LET item == [nextItem EXCEPT !.status = "error",
                                      !.metadata = [NoMetadata EXCEPT !.error = message]]
         IN  Emit([m EXCEPT !.queue = WriteItem(@, item)], "itemError", item)

\* Mutation of CatchBlock: itemError is emitted for a failure that is retried too.
CatchBlock_ErrorOnRetry(m, nextItem, message) ==
    IF CanRetry(m, nextItem.id)
    THEN LET item == [nextItem EXCEPT !.status = "pending"] IN
         Emit([m EXCEPT !.retryCounts = MapSet(@, nextItem.id, MapGet(@, nextItem.id) + 1),
                        !.queue = WriteItem(@, item),
                        !.processingQueue = @ \ {nextItem.id},
                        !.timers = @ (+) SetToBag({Timer(m, item, m.config.retryDelay)})],
              "itemError", item)
    ELSE LET item == [nextItem EXCEPT !.status = "error",
                                      !.metadata = [NoMetadata EXCEPT !.error = message]]
         IN  Emit([m EXCEPT !.queue = WriteItem(@, item)], "itemError", item)

\* The catch block (lines 90-108).
CatchBlock(m, nextItem, message) ==
    IF CanRetry(m, nextItem.id)
    THEN LET item == [nextItem EXCEPT !.status = "pending"] IN
         [m EXCEPT !.retryCounts = MapSet(@, nextItem.id, MapGet(@, nextItem.id) + 1),
                   !.queue = WriteItem(@, item),
                   !.processingQueue = @ \ {nextItem.id},
                   !.timers = @ (+) SetToBag({Timer(m, item, m.config.retryDelay)})]
    ELSE LET item == [nextItem EXCEPT !.status = "error",
                                      !.metadata = [NoMetadata EXCEPT !.error = message]]
         IN  Emit([m EXCEPT !.queue = WriteItem(@, item)], "itemError", item)

\* Mutation of CompleteItem: the solution is not stored.
CompleteItem_NoSolution(m, nextItem, problemStatement, code) ==
    LET item == [nextItem EXCEPT !.status = "completed",
                                 !.metadata = [NoMetadata EXCEPT
                                                  !.problemStatement = problemStatement]]
    IN  Emit([m EXCEPT !.queue = WriteItem(@, item)], "itemCompleted", item)

\* Lines 83-89, after both stages resolved.
CompleteItem(m, nextItem, problemStatement, code) ==
    LET item == [nextItem EXCEPT !.status = "completed",
                                 !.metadata = [NoMetadata EXCEPT
                                                  !.problemStatement = problemStatement,
                                                  !.solution = code]]
    IN  Emit([m EXCEPT !.queue = WriteItem(@, item)], "itemCompleted", item)

Settled(m, c) == [m EXCEPT !.calls = @ (-) SetToBag({c})]

\* The try block from line 83 on, and the catch block when the emit of line
\* 89, which is inside the try, throws: the catch block then handles the
\* listener's error like a failure of the pipeline.
TryBlock(m, c) ==
    LET done == CompleteItem(m, NextItem(m, c), c.arg, SolutionCode(c.arg)) IN
    IF Throws(m, "itemCompleted")
    THEN CatchBlock(done, NextItem(done, c), ListenerMessage)
    ELSE done

\* ------------------------------------------------------------ public API
\* Mutation of AddScreenshotBody: processNext() is called whatever autoProcess is.
AddScreenshotBody_AlwaysDispatches(m, id, path) ==
    LET item == ScreenshotItem(id, path) IN
    ProcessNext(Emit([m EXCEPT !.queue = Append(@, item)], "itemAdded", item))

\* Mutation of AddScreenshotBody: unshift for push, the new item goes to the front.
AddScreenshotBody_Unshift(m, id, path) ==
    LET item == ScreenshotItem(id, path)
        m1 == Emit([m EXCEPT !.queue = <<item>> \o @], "itemAdded", item)
    IN  IF m1.config.autoProcess THEN ProcessNext(m1) ELSE m1

\* addScreenshot(path, preview), lines 44-62; when a listener of itemAdded
\* throws at line 55 the rest is skipped.
AddScreenshotBody(m, id, path) ==
    LET item == ScreenshotItem(id, path)
        m1 == Emit([m EXCEPT !.queue = Append(@, item)], "itemAdded", item)
    IN  IF Throws(m, "itemAdded") THEN m1
        ELSE IF m1.config.autoProcess THEN ProcessNext(m1) ELSE m1

\* Mutation of RemoveScreenshotBody: processingQueue.delete(id) is left out.
RemoveScreenshotBody_KeepsInFlight(m, id) ==
    LET index == FindIndex(m.queue, id) IN
    IF index = 0 THEN m
    ELSE Emit([m EXCEPT !.queue = Splice(@, index),
                        !.retryCounts = MapDelete(@, id)],
              "itemRemoved", m.queue[index])

\* Mutation of RemoveScreenshotBody: no early return for an unknown id, so
\* that splice(-1, 1) drops the last item.
RemoveScreenshotBody_NoGuard(m, id) ==
    LET found == FindIndex(m.queue, id)
        index == IF found = 0 THEN Len(m.queue) ELSE found
    IN  IF index = 0 THEN m
        ELSE Emit([m EXCEPT !.queue = Splice(@, index),
                            !.processingQueue = @ \ {id},
                            !.retryCounts = MapDelete(@, id)],
                  "itemRemoved", m.queue[index])

\* removeScreenshot(id), lines 163-174
RemoveScreenshotBody(m, id) ==
    LET index == FindIndex(m.queue, id) IN
    IF index = 0 THEN m
    ELSE Emit([m EXCEPT !.queue = Splice(@, index),
                        !.processingQueue = @ \ {id},
                        !.retryCounts = MapDelete(@, id)],
              "itemRemoved", m.queue[index])

\* Mutation of ClearQueueBody: processingQueue.clear() is left out.
ClearQueueBody_KeepsInFlight(m) ==
    [m EXCEPT !.queue = <<>>, !.retryCounts = EmptyMap]

\* clearQueue(), lines 200-204
ClearQueueBody(m) ==
    [m EXCEPT !.queue = <<>>, !.processingQueue = {}, !.retryCounts = EmptyMap]

\* Mutation of UpdateConfigBody: in-flight items above a lowered maxConcurrent
\* are cancelled back to 'pending'.
UpdateConfigBody_Cancels(m, newConfig) ==
    LET merged == Merge(m.config, newConfig) IN
    IF Cardinality(m.processingQueue) > merged.maxConcurrent
    THEN [m EXCEPT !.config = merged,
                   !.processingQueue = {},
                   !.queue = [i \in DOMAIN m.queue |->
                                IF m.queue[i].status = "processing"
                                THEN [m.queue[i] EXCEPT !.status = "pending"]
                                ELSE m.queue[i]]]
    ELSE [m EXCEPT !.config = merged]

\* Mutation of UpdateConfigBody: with autoProcess on after the merge,
\* processNext() is called.
UpdateConfigBody_Dispatches(m, newConfig) ==
    LET m1 == [m EXCEPT !.config = Merge(@, newConfig)]
    IN  IF m1.config.autoProcess THEN ProcessNext(m1) ELSE m1

\* updateConfig(newConfig), lines 214-216
UpdateConfigBody(m, newConfig) == [m EXCEPT !.config = Merge(@, newConfig)]

Caller(op, id, ok) == [op |-> op, id |-> id, ok |-> ok]

\* ------------------------------------------------------------ steps
\* new ScreenshotQueueManager(config), with a listener registered for the
\* kinds listenTo, processWithAI calls counted for the ids counted, and the
\* config at dispatch noted for the ids watched.
ConstructedWatching(configs, listenTo, counted, watched) ==
    /\ queue = <<>>
    /\ processingQueue = {}
    /\ retryCounts = EmptyMap
    /\ config \in configs
    /\ calls = EmptyBag
    /\ timers = EmptyBag
    /\ nextId = 1
    /\ emitted = <<>>
    /\ lastCall = Caller("constructor", 0, TRUE)
    /\ listening = listenTo
    /\ history = [id \in Ids |-> <<>>]
    /\ attempts = [id \in counted |-> 0]
    /\ dispatchedUnder = [id \in watched |-> config]
    /\ events = [kind \in {} |-> <<>>]
    /\ delivered = <<>>
    /\ returned = [held |-> FALSE, array |-> <<>>, live |-> FALSE]
    /\ hook = [mounted |-> FALSE, queue |-> <<>>, isProcessing |-> FALSE]

\* new ScreenshotQueueManager(config), with a listener registered for the
\* kinds listenTo and processWithAI calls counted for the ids counted.
Constructed(configs, listenTo, counted) ==
    ConstructedWatching(configs, listenTo, counted, {})

Init == Constructed(QueueManagerConfig, {}, {})

AddScreenshot(path) ==
    /\ nextId <= MaxItems
    /\ Commit(AddScreenshotBody(Heap, nextId, path))
    /\ nextId' = nextId + 1
    /\ lastCall' = Caller("addScreenshot", nextId, ~Throws(Heap, "itemAdded"))

\* addScreenshot with the id generateId() computes from the clock and the
\* random number generator (AddScreenshot above takes the ids to be distinct).
AddScreenshotAt(path, now, suffix) ==
    /\ nextId <= MaxItems
    /\ Commit(AddScreenshotBody(Heap, GenerateId(now, suffix), path))
    /\ nextId' = nextId + 1
    /\ lastCall' = Caller("addScreenshot", GenerateId(now, suffix), TRUE)

CallProcessNext ==
    /\ Commit(ProcessNext(Heap))
    /\ lastCall' = Caller("processNext", 0, ~DispatchThrows(Heap))
    /\ UNCHANGED nextId

\* Mutation of ProcessWithAIResolved: generateSolution is called with the
\* path of the screenshot instead of the result of processWithAI.
ProcessWithAIResolved_PassesPath(c) ==
    /\ c.stage = 1
    /\ Commit([Settled(Heap, c) EXCEPT !.calls = @ (+) SetToBag({SolverCall(c, 2, c.arg)})])
    /\ lastCall' = Caller("processWithAI resolved", c.id, TRUE)
    /\ UNCHANGED nextId

\* processWithAI resolved: processNext goes on to await generateSolution.
ProcessWithAIResolved(c) ==
    /\ c.stage = 1
    /\ Commit([Settled(Heap, c) EXCEPT
                 !.calls = @ (+) SetToBag({SolverCall(c, 2, ProblemStatement(c.arg))})])
    /\ lastCall' = Caller("processWithAI resolved", c.id, TRUE)
    /\ UNCHANGED nextId

GenerateSolutionResolved(c) ==
    /\ c.stage = 2
    /\ LET m == Settled(Heap, c) IN
       /\ (Throws(m, "itemCompleted") /\ CanRetry(m, c.id)) => BagCardinality(timers) < MaxTimers
       /\ Commit(FinallyBlock(TryBlock(m, c), c.id))
    /\ lastCall' = Caller("generateSolution resolved", c.id, TRUE)
    /\ UNCHANGED nextId

\* Either stage rejected with error.message = message.
Rejected(c, message) ==
    LET m == Settled(Heap, c) IN
    /\ CanRetry(m, c.id) => BagCardinality(timers) < MaxTimers
    /\ Commit(FinallyBlock(CatchBlock(m, NextItem(m, c), message), c.id))
    /\ UNCHANGED nextId

ProcessWithAIRejected(c, message) ==
    /\ c.stage = 1
    /\ Rejected(c, message)
    /\ lastCall' = Caller("processWithAI rejected", c.id, FALSE)

GenerateSolutionRejected(c, message) ==
    /\ c.stage = 2
    /\ Rejected(c, message)
    /\ lastCall' = Caller("generateSolution rejected", c.id, FALSE)

\* The setTimeout callback of the retry branch (lines 99-101).
RetryTimerFires(timer) ==
    /\ BagIn(timer, timers)
    /\ Commit(ProcessNext([Heap EXCEPT !.timers = @ (-) SetToBag({timer})]))
    /\ lastCall' = Caller("retryTimer", 0, TRUE)
    /\ UNCHANGED nextId

\* Mutation of OffBody: only the first registration of the callback is dropped.
OffBody_FirstOnly(m, kind, callback) ==
    IF kind \in DOMAIN m.events
    THEN LET callbacks == m.events[kind]
             first == { i \in DOMAIN callbacks : callbacks[i] = callback }
         IN  IF first = {} THEN m
             ELSE [m EXCEPT !.events[kind] =
                     LET k == CHOOSE i \in first : \A j \in first : i <= j
                     IN  [j \in 1..(Len(callbacks) - 1) |->
                            IF j < k THEN callbacks[j] ELSE callbacks[j + 1]]]
    ELSE m

\* EventEmitter.on (lines 6-11)
OnBody(m, kind, callback) ==
    [m EXCEPT !.events =
       IF kind \in DOMAIN @
       THEN [@ EXCEPT ![kind] = Append(@, callback)]
       ELSE [k \in DOMAIN @ \cup {kind} |-> IF k = kind THEN <<callback>> ELSE @[k]]]

\* EventEmitter.off (lines 19-23)
OffBody(m, kind, callback) ==
    IF kind \in DOMAIN m.events
    THEN [m EXCEPT !.events[kind] = SelectSeq(@, LAMBDA cb : cb # callback)]
    ELSE m

\* manager.on(kind, callback), lines 206-208
On(kind, callback) ==
    /\ kind \in DOMAIN events => Len(events[kind]) < MaxRegistrations
    /\ Commit(OnBody(Heap, kind, callback))
    /\ lastCall' = Caller("on " \o kind, callback, TRUE)
    /\ UNCHANGED nextId

\* manager.off(kind, callback), lines 210-212
Off(kind, callback) ==
    /\ Commit(OffBody(Heap, kind, callback))
    /\ lastCall' = Caller("off " \o kind, callback, TRUE)
    /\ UNCHANGED nextId

\* A listener assigns to the status field of an item it was called with:
\* emit (lines 13-17) hands callback(data) the object that addScreenshot pushed
\* on the queue (lines 54-55) and processNext found in it (lines 69, 76, 89,
\* 107), not a copy, so the write lands in the queue while the item is there.
ListenerWrites(id, status) ==
    /\ history[id] # <<>>
    /\ LET m == Heap
           i == FindIndex(queue, id)
       IN  Commit(IF i = 0 THEN m
                  ELSE [m EXCEPT !.queue = WriteItem(@, [queue[i] EXCEPT !.status = status])])
    /\ lastCall' = Caller("listener", id, TRUE)
    /\ UNCHANGED nextId

\* Mutation of GetQueueResult: return this.queue, the array itself.
GetQueueResult_SameArray(q) ==
    [held |-> TRUE, array |-> [i \in DOMAIN q |-> q[i].id], live |-> TRUE]

\* [...this.queue] (line 177): a new array holding the items of the queue in
\* queue order; live says whether the array is this.queue itself.
GetQueueResult(q) ==
    [held |-> TRUE, array |-> [i \in DOMAIN q |-> q[i].id], live |-> FALSE]

\* getQueue(), lines 176-178
GetQueue ==
    /\ Commit([Heap EXCEPT !.returned = GetQueueResult(queue)])
    /\ lastCall' = Caller("getQueue", 0, TRUE)
    /\ UNCHANGED nextId

\* getProcessingCount(), lines 180-182: reads processingQueue.size
CallGetProcessingCount ==
    /\ Commit(Heap)
    /\ lastCall' = Caller("getProcessingCount", 0, TRUE)
    /\ UNCHANGED nextId

\* getQueueStats(), lines 184-198: counts into a local object
CallGetQueueStats ==
    /\ Commit(Heap)
    /\ lastCall' = Caller("getQueueStats", 0, TRUE)
    /\ UNCHANGED nextId

\* The caller pushes an item of its own on the array getQueue() gave it; the
\* push lands in the queue when that array is the queue's.
PushOnReturned(path) ==
    /\ returned.held
    /\ Len(returned.array) <= MaxItems
    /\ Commit([Heap EXCEPT !.returned.array = Append(@, 0),
                           !.queue = IF returned.live
                                     THEN Append(@, ScreenshotItem(0, path)) ELSE @])
    /\ lastCall' = Caller("returned.push", 0, TRUE)
    /\ UNCHANGED nextId

\* The caller pops the last element off the array getQueue() gave it.
PopOffReturned ==
    /\ returned.held
    /\ Len(returned.array) > 0
    /\ Commit([Heap EXCEPT !.returned.array = SubSeq(@, 1, Len(@) - 1),
                           !.queue = IF returned.live /\ Len(@) > 0
                                     THEN SubSeq(@, 1, Len(@) - 1) ELSE @])
    /\ lastCall' = Caller("returned.pop", 0, TRUE)
    /\ UNCHANGED nextId

RemoveScreenshot(id) ==
    /\ Commit(RemoveScreenshotBody(Heap, id))
    /\ lastCall' = Caller("removeScreenshot", id, FindIndex(queue, id) # 0)
    /\ UNCHANGED nextId

ClearQueue ==
    /\ Commit(ClearQueueBody(Heap))
    /\ lastCall' = Caller("clearQueue", 0, TRUE)
    /\ UNCHANGED nextId

\* The hook's clearQueue (useScreenshotQueue.ts lines 85-97):
\* manager.clearQueue(), setQueue([]) and setStats of all zeros.
HookClearQueue ==
    /\ Commit([ClearQueueBody(Heap) EXCEPT !.hook.queue = <<>>])
    /\ lastCall' = Caller("clearQueue", 0, TRUE)
    /\ UNCHANGED nextId

UpdateConfig(newConfig) ==
    /\ Commit(UpdateConfigBody(Heap, newConfig))
    /\ lastCall' = Caller("updateConfig", 0, TRUE)
    /\ UNCHANGED nextId

Next ==
    \/ \E path \in Paths : AddScreenshot(path)
    \/ CallProcessNext
    \/ \E c \in BagToSet(calls) : ProcessWithAIResolved(c)
    \/ \E c \in BagToSet(calls) : GenerateSolutionResolved(c)
    \/ \E c \in BagToSet(calls), message \in Messages : ProcessWithAIRejected(c, message)
    \/ \E c \in BagToSet(calls), message \in Messages : GenerateSolutionRejected(c, message)
    \/ \E timer \in BagToSet(timers) : RetryTimerFires(timer)
    \/ \E id \in Ids : RemoveScreenshot(id)
    \/ ClearQueue
    \/ \E newConfig \in PartialConfig : UpdateConfig(newConfig)

Spec == Init /\ [][Next]_vars

\* ------------------------------------------------------------ scenarios
\* The lifecycle kinds the test at lines 342-379 listens to, and itemError.
LifecycleKinds == {"itemAdded", "itemProcessing", "itemCompleted", "itemError"}

\* A listener records the lifecycle events.
SpecEvents == Constructed(QueueManagerConfig, LifecycleKinds, {}) /\ [][Next]_vars

\* The configuration stays as constructed; the calls of processWithAI are counted.
NextFixedConfig ==
    \/ \E path \in Paths : AddScreenshot(path)
    \/ CallProcessNext
    \/ \E c \in BagToSet(calls) : ProcessWithAIResolved(c)
    \/ \E c \in BagToSet(calls) : GenerateSolutionResolved(c)
    \/ \E c \in BagToSet(calls), message \in Messages : ProcessWithAIRejected(c, message)
    \/ \E c \in BagToSet(calls), message \in Messages : GenerateSolutionRejected(c, message)
    \/ \E timer \in BagToSet(timers) : RetryTimerFires(timer)
    \/ \E id \in Ids : RemoveScreenshot(id)
    \/ ClearQueue

SpecFixedConfig == Constructed(QueueManagerConfig, {}, Ids) /\ [][NextFixedConfig]_vars

\* Items leave the queue by removeScreenshot only; a listener records every kind.
NextRemove ==
    \/ \E path \in Paths : AddScreenshot(path)
    \/ CallProcessNext
    \/ \E c \in BagToSet(calls) : ProcessWithAIResolved(c)
    \/ \E c \in BagToSet(calls) : GenerateSolutionResolved(c)
    \/ \E c \in BagToSet(calls), message \in Messages : ProcessWithAIRejected(c, message)
    \/ \E c \in BagToSet(calls), message \in Messages : GenerateSolutionRejected(c, message)
    \/ \E timer \in BagToSet(timers) : RetryTimerFires(timer)
    \/ \E id \in Ids : RemoveScreenshot(id)
    \/ \E newConfig \in PartialConfig : UpdateConfig(newConfig)

SpecRemove == Constructed(QueueManagerConfig, EventKinds, {}) /\ [][NextRemove]_vars

\* Items leave the queue by clearQueue only.
NextClear ==
    \/ \E path \in Paths : AddScreenshot(path)
    \/ CallProcessNext
    \/ \E c \in BagToSet(calls) : ProcessWithAIResolved(c)
    \/ \E c \in BagToSet(calls) : GenerateSolutionResolved(c)
    \/ \E c \in BagToSet(calls), message \in Messages : ProcessWithAIRejected(c, message)
    \/ \E c \in BagToSet(calls), message \in Messages : GenerateSolutionRejected(c, message)
    \/ \E timer \in BagToSet(timers) : RetryTimerFires(timer)
    \/ ClearQueue
    \/ \E newConfig \in PartialConfig : UpdateConfig(newConfig)

SpecClear == Constructed(QueueManagerConfig, {}, {}) /\ [][NextClear]_vars

\* The Solver always fails (the mock of the test at lines 324-340): stage one
\* rejects with FailureMessage.  No item is removed and the configuration
\* stays.  Every awaited promise settles and every timer fires (the event
\* loop runs every settled promise's continuation and every due timer).
FailureMessage == "Processing failed"

SolverRejects == \E c \in BagToSet(calls) : ProcessWithAIRejected(c, FailureMessage)

TimerFires == \E timer \in BagToSet(timers) : RetryTimerFires(timer)

\* The caller's processNext() starts the processing; from then on the retry
\* timers (and, with autoProcess, the finally block) drive it.
CallerStarts == calls = EmptyBag /\ timers = EmptyBag /\ CallProcessNext

NextFailing ==
    \/ \E path \in Paths : AddScreenshot(path)
    \/ CallerStarts
    \/ SolverRejects
    \/ TimerFires

SpecFailing ==
    /\ Constructed(QueueManagerConfig, {}, Ids)
    /\ [][NextFailing]_vars
    /\ WF_vars(SolverRejects)
    /\ WF_vars(TimerFires)

\* autoProcess is on and the Solver always succeeds; nothing is removed or
\* cleared and the configuration stays.  Every awaited promise settles.
SolverResolves ==
    \/ \E c \in BagToSet(calls) : ProcessWithAIResolved(c)
    \/ \E c \in BagToSet(calls) : GenerateSolutionResolved(c)

NextSucceeding ==
    \/ \E path \in Paths : AddScreenshot(path)
    \/ CallProcessNext
    \/ SolverResolves

SpecSucceeding ==
    /\ Constructed({ c \in QueueManagerConfig : c.autoProcess }, {}, {})
    /\ [][NextSucceeding]_vars
    /\ WF_vars(SolverResolves)

\* The manager is constructed with one retry and the default delay, and the
\* caller lowers the retry settings while items are processed (to no retry,
\* and to the delay of the test suite's beforeEach).  A stage that fails
\* rejects with FailureMessage.  Nothing is removed or cleared; the config at
\* each dispatch is noted, and whose retry each timer is.
Reconfigurations == {[retryAttempts |-> 0], [retryDelay |-> 100]}

NextReconfigure ==
    \/ \E path \in Paths : AddScreenshot(path)
    \/ CallProcessNext
    \/ SolverResolves
    \/ \E c \in BagToSet(calls) : ProcessWithAIRejected(c, FailureMessage)
    \/ \E c \in BagToSet(calls) : GenerateSolutionRejected(c, FailureMessage)
    \/ TimerFires
    \/ \E newConfig \in Reconfigurations : UpdateConfig(newConfig)

SpecReconfigure ==
    /\ ConstructedWatching({ c \in QueueManagerConfig : c.retryAttempts = 1 }, {}, {}, Ids)
    /\ [][NextReconfigure]_vars

\* Ids come from generateId(); the Solver succeeds.
NextGenerateId ==
    \/ \E path \in Paths, now \in Timestamps, suffix \in Suffixes :
          AddScreenshotAt(path, now, suffix)
    \/ CallProcessNext
    \/ SolverResolves
    \/ \E id \in GeneratedIds : RemoveScreenshot(id)

SpecGenerateId == Constructed(QueueManagerConfig, {}, {}) /\ [][NextGenerateId]_vars

\* Two callbacks are registered and unregistered, in any order and more than
\* once, for the two kinds addScreenshot emits with autoProcess on; they
\* return normally and call neither on nor off.
Callbacks == {1, 2}
ListenerKinds == {"itemAdded", "itemProcessing"}

NextListeners ==
    \/ \E kind \in ListenerKinds, callback \in Callbacks : On(kind, callback)
    \/ \E kind \in ListenerKinds, callback \in Callbacks : Off(kind, callback)
    \/ \E path \in Paths : AddScreenshot(path)
    \/ SolverResolves

SpecListeners ==
    /\ Constructed({ c \in QueueManagerConfig : c.autoProcess /\ c.retryAttempts = 0 }, {}, {})
    /\ [][NextListeners]_vars

\* The caller submits, removes and reconfigures (pause, resume, another
\* maxConcurrent) but never calls processNext() itself.  Every awaited promise
\* settles, one way or the other, and every timer fires.
SolverSettles == SolverResolves \/ SolverRejects

NextUnattended ==
    \/ \E path \in Paths : AddScreenshot(path)
    \/ SolverSettles
    \/ TimerFires
    \/ \E id \in Ids : RemoveScreenshot(id)
    \/ \E newConfig \in PartialConfig : UpdateConfig(newConfig)

SpecUnattended ==
    /\ Constructed(QueueManagerConfig, {}, {})
    /\ [][NextUnattended]_vars
    /\ WF_vars(SolverSettles)
    /\ WF_vars(TimerFires)

\* The Solver always fails in stage one; the caller starts the processing,
\* removes items, clears the queue and may give up retrying by
\* updateConfig({retryAttempts: 0}); the calls of processWithAI are counted.
NextRetrying ==
    \/ \E path \in Paths : AddScreenshot(path)
    \/ CallerStarts
    \/ SolverRejects
    \/ TimerFires
    \/ \E id \in Ids : RemoveScreenshot(id)
    \/ ClearQueue
    \/ UpdateConfig([retryAttempts |-> 0])

SpecRetrying == Constructed(QueueManagerConfig, {}, Ids) /\ [][NextRetrying]_vars

\* The screenshots submitted are those of the test at lines 287-322; each
\* stage resolves or rejects with FailureMessage.  Nothing is removed or
\* cleared and the configuration stays.
TestPaths == {"/test1.png", "/test2.png"}

NextPipeline ==
    \/ \E path \in TestPaths : AddScreenshot(path)
    \/ CallProcessNext
    \/ \E c \in BagToSet(calls) : ProcessWithAIResolved(c)
    \/ \E c \in BagToSet(calls) : GenerateSolutionResolved(c)
    \/ \E c \in BagToSet(calls) : ProcessWithAIRejected(c, FailureMessage)
    \/ \E c \in BagToSet(calls) : GenerateSolutionRejected(c, FailureMessage)
    \/ TimerFires

SpecPipeline == Constructed(QueueManagerConfig, {}, {}) /\ [][NextPipeline]_vars

\* Listeners that throw are registered for the kinds addScreenshot and
\* processNext emit on the way to 'completed'; the Solver succeeds.
ThrowingKinds == {"itemAdded", "itemProcessing", "itemCompleted"}

NextThrowingListener ==
    \/ \E kind \in ThrowingKinds : On(kind, Throwing)
    \/ \E path \in Paths : AddScreenshot(path)
    \/ CallProcessNext
    \/ SolverResolves
    \/ TimerFires

SpecThrowingListener ==
    Constructed(QueueManagerConfig, {}, {}) /\ [][NextThrowingListener]_vars

\* The caller reads the queue, the statistics and the processing count
\* between the other calls, and edits the arrays getQueue() returns; the
\* Solver succeeds.
NextGetters ==
    \/ \E path \in Paths : AddScreenshot(path)
    \/ CallProcessNext
    \/ SolverResolves
    \/ \E id \in Ids : RemoveScreenshot(id)
    \/ GetQueue
    \/ CallGetProcessingCount
    \/ CallGetQueueStats
    \/ \E path \in Paths : PushOnReturned(path)
    \/ PopOffReturned

SpecGetters == Constructed(QueueManagerConfig, {}, {}) /\ [][NextGetters]_vars

\* A component uses the manager through useScreenshotQueue: the hook has
\* created the manager and registered its listeners (useScreenshotQueue.ts
\* lines 11-61), and the component calls what the hook returns.  A stage that
\* fails rejects with FailureMessage.
Mounted(configs) ==
    /\ queue = <<>>
    /\ processingQueue = {}
    /\ retryCounts = EmptyMap
    /\ config \in configs
    /\ calls = EmptyBag
    /\ timers = EmptyBag
    /\ nextId = 1
    /\ emitted = <<>>
    /\ lastCall = Caller("constructor", 0, TRUE)
    /\ listening = {}
    /\ history = [id \in Ids |-> <<>>]
    /\ attempts = [id \in {} |-> 0]
    /\ dispatchedUnder = [id \in {} |-> config]
    /\ events = [kind \in {} |-> <<>>]
    /\ delivered = <<>>
    /\ returned = [held |-> FALSE, array |-> <<>>, live |-> FALSE]
    /\ hook = [mounted |-> TRUE, queue |-> <<>>, isProcessing |-> FALSE]

NextHook ==
    \/ \E path \in Paths : AddScreenshot(path)
    \/ CallProcessNext
    \/ SolverResolves
    \/ \E c \in BagToSet(calls) : ProcessWithAIRejected(c, FailureMessage)
    \/ \E c \in BagToSet(calls) : GenerateSolutionRejected(c, FailureMessage)
    \/ TimerFires
    \/ \E id \in Ids : RemoveScreenshot(id)
    \/ HookClearQueue

SpecHook == Mounted(QueueManagerConfig) /\ [][NextHook]_vars

\* The statuses no automatic transition leaves.
Terminal == {"completed", "error"}

\* A listener registered for itemAdded keeps the items it is called with and
\* marks them finished, then or later; the Solver succeeds.

NextListenerWrites ==
    \/ \E path \in Paths : AddScreenshot(path)
    \/ CallProcessNext
    \/ SolverResolves
    \/ \E id \in Ids, status \in Terminal : ListenerWrites(id, status)

SpecListenerWrites ==
    Constructed(QueueManagerConfig, {"itemAdded"}, {}) /\ [][NextListenerWrites]_vars

\* ------------------------------------------------------------ vocabulary
QueueIds == { queue[i].id : i \in DOMAIN queue }

\* The status getQueue() shows for id; "absent" when id is not in the queue.
StatusOf(id) ==
    LET i == FindIndex(queue, id) IN
    IF i = 0 THEN "absent" ELSE queue[i].status

MetadataOf(id) ==
    LET i == FindIndex(queue, id) IN
    IF i = 0 THEN NoMetadata ELSE queue[i].metadata

\* getQueueStats()[status]
StatsCount(status) == Cardinality({ i \in DOMAIN queue : queue[i].status = status })

\* this.queue.forEach(item => { stats[item.status]++; }) from index i on
RECURSIVE CountStatuses(_, _, _)
CountStatuses(q, i, stats) ==
    IF i > Len(q) THEN stats
    ELSE CountStatuses(q, i + 1, [stats EXCEPT ![q[i].status] = @ + 1])

\* Mutation of GetQueueStats: items with status 'error' are not counted.
GetQueueStats_ErrorUncounted ==
    CountStatuses(SelectSeq(queue, LAMBDA item : item.status # "error"), 1,
                  [total |-> Len(queue), pending |-> 0, processing |-> 0,
                   completed |-> 0, error |-> 0])

\* getQueueStats()
GetQueueStats ==
    CountStatuses(queue, 1,
                  [total |-> Len(queue), pending |-> 0, processing |-> 0,
                   completed |-> 0, error |-> 0])

\* The ids the last step emitted an event of this kind for.
EmittedFor(kind) == { emitted[k].id : k \in { j \in DOMAIN emitted : emitted[j].kind = kind } }

InFlight == Cardinality(processingQueue)

\* The ids with a retry timer scheduled that has not fired yet.
AwaitingRetryTimer == { timer.id : timer \in BagToSet(timers) }

\* The last step was the catch block handling a rejected stage of id.
FailureHandled(id) ==
    /\ lastCall.op \in {"processWithAI rejected", "generateSolution rejected"}
    /\ lastCall.id = id

\* What addScreenshot does apart from the items that were already queued: one
\* new item at the end, created pending and without metadata, itemAdded for
\* it first, and a dispatch when autoProcess is on and a slot is free.
Appended(id) ==
    /\ id \notin QueueIds
    /\ Len(queue') = Len(queue) + 1
    /\ queue'[Len(queue')].id = id
    /\ queue'[Len(queue')].metadata = NoMetadata
    /\ queue'[Len(queue')].status =
         IF id \in EmittedFor("itemProcessing")' THEN "processing" ELSE "pending"
    /\ emitted'[1] = [kind |-> "itemAdded", id |-> id, status |-> "pending"]
    /\ \A k \in DOMAIN emitted' : emitted'[k].kind = "itemAdded" => k = 1
    /\ (config.autoProcess /\ InFlight < config.maxConcurrent)
         => /\ Cardinality(EmittedFor("itemProcessing")') = 1
            /\ BagCardinality(calls') = BagCardinality(calls) + 1
    /\ ~(config.autoProcess /\ InFlight < config.maxConcurrent)
         => /\ EmittedFor("itemProcessing")' = {}
            /\ calls' = calls

\* getProcessingCount(), line 181
GetProcessingCount == Cardinality(processingQueue)

\* The Solver promises a processNext started for id is still awaiting.
Outstanding(id) == { c \in BagToSet(calls) : c.id = id }

\* The path of the queue item id.
PathOf(id) == queue[FindIndex(queue, id)].path

\* The status the hook's queue shows at index i: of the manager's item while
\* the element is that object, the one written into the copy afterwards.
HookStatus(i) ==
    IF hook.queue[i].live THEN StatusOf(hook.queue[i].id) ELSE hook.queue[i].status

\* autoProcess is on, an item is pending and a slot is free.
Dispatchable ==
    /\ config.autoProcess
    /\ StatsCount("pending") > 0
    /\ InFlight < config.maxConcurrent

\* The pipeline failures a counted item of the queue has had, while it is not
\* finished: each of its starts but the one still running has failed.
FailuresOf(id) ==
    IF StatusOf(id) = "processing" THEN attempts[id] - 1 ELSE attempts[id]

\* The callbacks registered for kind, in registration order.
Registered(kind) == IF kind \in DOMAIN events THEN events[kind] ELSE <<>>

\* The ids of the items of q that are in kept, in queue order.
OrderOf(q, kept) ==
    LET items == SelectSeq(q, LAMBDA item : item.id \in kept)
    IN  [i \in DOMAIN items |-> items[i].id]

IsPrefix(h, s) == Len(h) <= Len(s) /\ \A i \in 1..Len(h) : h[i] = s[i]

\* ------------------------------------------------------------ claims
\* C1 as stated: in every reachable state the in-flight set holds at most
\* config.maxConcurrent ids, also after updateConfig lowered maxConcurrent.
C1_InFlightWithinCap == InFlight <= config.maxConcurrent

\* C1 amended: no step adds an id to the in-flight set unless the set is within
\* the current maxConcurrent afterwards, and the only step that takes the set
\* from within the cap to above it is an updateConfig that lowers the cap.
C1_InFlightGrowsOnlyWithinCap ==
    [][/\ processingQueue' \subseteq processingQueue \/ InFlight' <= config'.maxConcurrent
       /\ (InFlight <= config.maxConcurrent /\ InFlight' > config'.maxConcurrent)
            => lastCall'.op = "updateConfig"]_vars

\* processNext was called with the in-flight set at the cap and an item
\* pending, and dispatched nothing.
C1_Witness ==
    /\ lastCall.op = "processNext"
    /\ emitted = <<>>
    /\ InFlight = config.maxConcurrent
    /\ StatsCount("pending") > 0

\* C2: with retryAttempts as constructed, no item's pipeline is started more
\* than retryAttempts + 1 times, and an item with status 'error' has had it
\* started exactly retryAttempts + 1 times.
C2_AttemptsBounded ==
    \A id \in DOMAIN attempts :
        /\ attempts[id] <= config.retryAttempts + 1
        /\ StatusOf(id) = "error" => attempts[id] = config.retryAttempts + 1

\* C3: when the Solver always fails, every item that was dispatched (and is
\* never removed) eventually has status 'error' and the failure's message as
\* metadata.error.
C3_EventuallyError ==
    \A id \in Ids :
        [](attempts[id] > 0
             => <>(StatusOf(id) = "error" /\ MetadataOf(id).error = FailureMessage))

\* C4: with autoProcess on and a Solver that always succeeds, every submitted
\* item eventually has status 'completed', and never are more than
\* maxConcurrent items 'processing'.
C4_AllCompleteWithinCap ==
    /\ [](StatsCount("processing") <= config.maxConcurrent)
    /\ \A id \in Ids : [](id \in QueueIds => <>(StatusOf(id) = "completed"))

\* Every item that could be submitted is completed, with fewer slots than items.
C4_Witness ==
    /\ Len(queue) = MaxItems
    /\ \A i \in DOMAIN queue : queue[i].status = "completed"
    /\ config.maxConcurrent < MaxItems

\* C5: per item id the events arrive as itemAdded, then itemProcessing (once or
\* repeated), then at most one of itemCompleted and itemError, once; an item
\* with a terminal status has had exactly its terminal event.
C5_EventOrder ==
    \A id \in Ids :
        /\ \/ IsPrefix(history[id], <<"itemAdded", "itemProcessing", "itemCompleted">>)
           \/ IsPrefix(history[id], <<"itemAdded", "itemProcessing", "itemError">>)
        /\ StatusOf(id) = "completed"
             => history[id] = <<"itemAdded", "itemProcessing", "itemCompleted">>
        /\ StatusOf(id) = "error"
             => history[id] = <<"itemAdded", "itemProcessing", "itemError">>

\* One item ended completed and another in error, each with its full sequence.
C5_Witness ==
    \E a, b \in Ids :
        /\ StatusOf(a) = "completed"
        /\ StatusOf(b) = "error"
        /\ history[a] = <<"itemAdded", "itemProcessing", "itemCompleted">>
        /\ history[b] = <<"itemAdded", "itemProcessing", "itemError">>

\* C6: once itemRemoved was emitted for an id, no further event is emitted for
\* it (in particular none when its in-flight Solver call settles), and the id
\* is not in the queue again.
C6_RemovedStaysSilent ==
    \A id \in Ids :
        \A k \in DOMAIN history[id] :
            history[id][k] = "itemRemoved" => k = Len(history[id]) /\ id \notin QueueIds

\* C7: (items leave by clearQueue only) no event is emitted for an item that
\* was cleared, and the in-flight set and the retry tracker hold no cleared id.
C7_ClearedStaysSilent ==
    /\ \A k \in DOMAIN emitted : emitted[k].id \in QueueIds
    /\ \A id \in Ids \ QueueIds : id \notin processingQueue /\ id \notin DOMAIN retryCounts

\* C8: at most maxConcurrent Solver calls are outstanding (started and not
\* settled), also after removeScreenshot or clearQueue of processing items.
C8_OutstandingWithinCap == BagCardinality(calls) <= config.maxConcurrent

\* C9 as stated: while autoProcess is false, addScreenshot leaves the new item
\* pending and the in-flight set as it was, and only a processNext() call of
\* the caller dispatches an item.
C9_OnlyExplicitDispatch ==
    [][~config.autoProcess =>
         /\ lastCall'.op = "addScreenshot" =>
              /\ processingQueue' = processingQueue
              /\ queue'[Len(queue')].status = "pending"
         /\ EmittedFor("itemProcessing")' # {} => lastCall'.op = "processNext"]_vars

\* C9 amended: while autoProcess is false, addScreenshot leaves the new item
\* pending and the in-flight set as it was, and an item is dispatched only by
\* a processNext() call of the caller or by a retry timer firing.
C9_DispatchByCallerOrTimer ==
    [][~config.autoProcess =>
         /\ lastCall'.op = "addScreenshot" =>
              /\ processingQueue' = processingQueue
              /\ queue'[Len(queue')].status = "pending"
         /\ EmittedFor("itemProcessing")' # {}
              => lastCall'.op \in {"processNext", "retryTimer"}]_vars

\* With autoProcess false, a retry timer fired and dispatched an item.
C9_Witness ==
    /\ ~config.autoProcess
    /\ lastCall.op = "retryTimer"
    /\ EmittedFor("itemProcessing") # {}

\* C10: the item a step dispatches has no pending item before it in the queue.
C10_FifoDispatch ==
    \A id \in EmittedFor("itemProcessing") :
        LET i == FindIndex(queue, id) IN
        /\ i # 0
        /\ \A j \in 1..(i - 1) : queue[j].status # "pending"

\* The first item of the queue was dispatched while the second was pending.
C10_Witness ==
    /\ Len(queue) >= 2
    /\ queue[1].id \in EmittedFor("itemProcessing")
    /\ queue[2].status = "pending"

\* C11: no step changes the relative order of two items that stay in the
\* queue (a retried item keeps its place), addScreenshot only appends at the
\* end, and removeScreenshot only deletes the one element it names.
C11_OrderKept ==
    [][/\ LET kept == QueueIds \cap QueueIds'
          IN  OrderOf(queue', kept) = OrderOf(queue, kept)
       /\ lastCall'.op = "addScreenshot" =>
            /\ Len(queue') = Len(queue) + 1
            /\ queue'[Len(queue')].id = lastCall'.id
            /\ \A i \in DOMAIN queue : queue'[i].id = queue[i].id
       /\ lastCall'.op = "removeScreenshot" =>
            /\ QueueIds' = QueueIds \ {lastCall'.id}
            /\ Len(queue') >= Len(queue) - 1]_vars

\* The first of two items failed, is pending for its retry, and is still first.
C11_Witness ==
    /\ lastCall.op = "processWithAI rejected"
    /\ Len(queue) = 2
    /\ queue[1].id = lastCall.id
    /\ queue[1].status = "pending"
    /\ BagCardinality(timers) = 1

\* C12: apart from a processNext() call of the caller, no step dispatches an
\* item while a retry timer scheduled for a failure of that item has not
\* fired yet, whatever autoProcess is.
C12_RetryWaitsForTimer ==
    [][lastCall'.op # "processNext"
         => EmittedFor("itemProcessing")' \cap AwaitingRetryTimer' = {}]_vars

\* C13: in every reachable state getQueueStats() has total equal to
\* pending + processing + completed + error, total being the queue length and
\* each other field the number of queue items with that status.
C13_StatsAddUp ==
    LET stats == GetQueueStats IN
    /\ stats.total = stats.pending + stats.processing + stats.completed + stats.error
    /\ stats.total = Len(queue)
    /\ \A status \in {"pending", "processing", "completed", "error"} :
          stats[status] = StatsCount(status)

\* One item ended in error and another completed.
C13_Witness ==
    /\ GetQueueStats.error = 1
    /\ GetQueueStats.completed = 1
    /\ GetQueueStats.total = 2

\* C14: removeScreenshot(id) with an id that is not in the queue returns
\* false, emits no event and leaves the queue, the in-flight set and the retry
\* tracker as they were.
C14_RemoveAbsentIsNoOp ==
    [][(lastCall'.op = "removeScreenshot" /\ lastCall'.id \notin QueueIds) =>
         /\ lastCall'.ok = FALSE
         /\ emitted' = <<>>
         /\ queue' = queue
         /\ processingQueue' = processingQueue
         /\ retryCounts' = retryCounts]_vars

\* removeScreenshot returned false while another item was in flight.
C14_Witness ==
    /\ lastCall.op = "removeScreenshot"
    /\ lastCall.ok = FALSE
    /\ lastCall.id \notin QueueIds
    /\ processingQueue # {}
    /\ Len(queue) > 0

\* C15: a processNext() call of the caller made when no queue item is pending,
\* or when the in-flight set holds maxConcurrent ids or more, emits no event,
\* starts no Solver call and leaves the queue, the in-flight set, the retry
\* tracker and the config as they were.
C15_ProcessNextNoOp ==
    [][(/\ lastCall'.op = "processNext"
        /\ StatsCount("pending") = 0 \/ InFlight >= config.maxConcurrent) =>
         /\ emitted' = <<>>
         /\ calls' = calls
         /\ queue' = queue
         /\ processingQueue' = processingQueue
         /\ retryCounts' = retryCounts
         /\ config' = config]_vars

\* processNext() was called with a slot free and items in the queue, none of
\* them pending.
C15_Witness ==
    /\ lastCall.op = "processNext"
    /\ Len(queue) > 0
    /\ StatsCount("pending") = 0
    /\ InFlight < config.maxConcurrent
    /\ emitted = <<>>

\* C16: an updateConfig that lowers maxConcurrent below the in-flight count
\* leaves the items that are 'processing' as they are and in the in-flight
\* set, and no step dispatches an item unless the in-flight count was below
\* the maxConcurrent then in force (it is within it after the dispatch).
C16_LoweredCapKeepsInFlight ==
    [][/\ lastCall'.op = "updateConfig" =>
            /\ queue' = queue
            /\ processingQueue' = processingQueue
       /\ \A id \in EmittedFor("itemProcessing")' :
            /\ id \in processingQueue'
            /\ Cardinality(processingQueue' \ {id}) < config'.maxConcurrent]_vars

\* updateConfig has lowered maxConcurrent below the number of items in
\* flight, and they are all still 'processing'.
C16_Witness ==
    /\ lastCall.op = "updateConfig"
    /\ InFlight > config.maxConcurrent
    /\ StatsCount("processing") = InFlight
    /\ \A i \in DOMAIN queue : queue[i].id \in processingQueue

C18_RemovePresent ==
    [][(lastCall'.op = "removeScreenshot" /\ lastCall'.id \in QueueIds) =>
         LET id == lastCall'.id IN
         /\ lastCall'.ok = TRUE
         /\ queue' = SelectSeq(queue, LAMBDA item : item.id # id)
         /\ Len(queue') = Len(queue) - 1
         /\ processingQueue' = processingQueue \ {id}
         /\ retryCounts' = [x \in DOMAIN retryCounts \ {id} |-> retryCounts[x]]
         /\ emitted' = <<[kind |-> "itemRemoved", id |-> id, status |-> StatusOf(id)]>>]_vars

\* The second of two items was removed while it was processing; the first is
\* still in the queue.
C18_Witness ==
    /\ lastCall.op = "removeScreenshot"
    /\ lastCall.ok = TRUE
    /\ emitted = <<[kind |-> "itemRemoved", id |-> 2, status |-> "processing"]>>
    /\ QueueIds = {1}
    /\ 2 \notin processingQueue

\* C19: right after clearQueue() the queue is empty, getProcessingCount() is
\* 0 and the retry tracker is empty; the call emits no event and leaves the
\* config as it was.
C19_ClearEmptiesAll ==
    [][lastCall'.op = "clearQueue" =>
         /\ queue' = <<>>
         /\ InFlight' = 0
         /\ DOMAIN retryCounts' = {}
         /\ emitted' = <<>>
         /\ config' = config]_vars

\* clearQueue() was called with items in the queue, one of them in flight
\* (its Solver call is still outstanding).
C19_Witness ==
    /\ lastCall.op = "clearQueue"
    /\ queue = <<>>
    /\ processingQueue = {}
    /\ calls # EmptyBag
    /\ nextId > 2

\* C20 as stated: addScreenshot appends one new item, pending and without
\* metadata, at the end of the queue, emits itemAdded for it before any
\* itemProcessing for it, dispatches when autoProcess is on and a slot is
\* free, and leaves every item that was already queued unchanged.
C20_AddLeavesOthers ==
    [][lastCall'.op = "addScreenshot" =>
         /\ Appended(lastCall'.id)
         /\ \A i \in DOMAIN queue : queue'[i] = queue[i]]_vars

\* C20 amended: as stated, except that the item the call dispatches is the
\* first pending one, which may be an item that was already queued: that item
\* goes from 'pending' to 'processing', all other queued items are unchanged.
C20_AddLeavesOthersButDispatched ==
    [][lastCall'.op = "addScreenshot" =>
         /\ Appended(lastCall'.id)
         /\ \A i \in DOMAIN queue :
              IF queue[i].id \in EmittedFor("itemProcessing")'
              THEN /\ queue[i].status = "pending"
                   /\ queue'[i] = [queue[i] EXCEPT !.status = "processing"]
                   /\ \A j \in 1..(i - 1) : queue[j].status # "pending"
              ELSE queue'[i] = queue[i]]_vars

\* addScreenshot added item 2 and dispatched item 1, which was queued and
\* pending; item 2 is pending behind it.
C20_Witness ==
    /\ lastCall = Caller("addScreenshot", 2, TRUE)
    /\ Len(queue) = 2
    /\ queue[1].id = 1
    /\ queue[2].status = "pending"
    /\ Len(emitted) = 2
    /\ emitted[2] = [kind |-> "itemProcessing", id |-> 1, status |-> "processing"]

\* C21: the ids addScreenshot returns are never reused, so no two items in
\* the queue share an id.
C21_IdsDistinct ==
    \A i, j \in DOMAIN queue : i # j => queue[i].id # queue[j].id

C23_MetadataMatchesStatus ==
    \A i \in DOMAIN queue :
        LET metadata == queue[i].metadata IN
        CASE queue[i].status = "completed" ->
               /\ metadata.problemStatement # Undefined
               /\ metadata.solution # Undefined
               /\ metadata.error = Undefined
          [] queue[i].status = "error" ->
               /\ metadata.error \in Messages
               /\ metadata.problemStatement = Undefined
               /\ metadata.solution = Undefined
          [] OTHER -> metadata = NoMetadata

\* The first item is completed with its solution; the second failed in its
\* second stage, is pending for its retry and has no metadata.
C23_Witness ==
    /\ Len(queue) = 2
    /\ queue[1].status = "completed"
    /\ queue[1].metadata.solution = SolutionCode(ProblemStatement(queue[1].path))
    /\ lastCall = Caller("generateSolution rejected", queue[2].id, FALSE)
    /\ queue[2].status = "pending"
    /\ queue[2].metadata = NoMetadata

C25_ListenerGetsSnapshot ==
    [][lastCall'.op = "listener" => queue' = queue]_vars

\* C26: every emit of a step calls the callbacks registered for its kind, once
\* per registration and in registration order, with the emitted item, and
\* calls no other callback; the calls of one emit are over before the next
\* emit's begin; off(kind, callback) takes that callback out of the kind's
\* list (so it gets no later event of the kind) and leaves the order of the
\* others and the lists of the other kinds as they were.
C26_DeliveryInRegistrationOrder ==
    [][/\ \A n \in DOMAIN emitted' :
            LET made == SelectSeq(delivered', LAMBDA d : d.emit = n) IN
            /\ [i \in DOMAIN made |-> made[i].callback] = Registered(emitted'[n].kind)
            /\ \A i \in DOMAIN made :
                 made[i].kind = emitted'[n].kind /\ made[i].id = emitted'[n].id
       /\ \A i \in DOMAIN delivered' :
            /\ delivered'[i].emit \in DOMAIN emitted'
            /\ \A j \in DOMAIN delivered' : i < j => delivered'[i].emit <= delivered'[j].emit
       /\ \A kind \in ListenerKinds, callback \in Callbacks :
            lastCall' = Caller("off " \o kind, callback, TRUE) =>
                /\ Registered(kind)' = SelectSeq(Registered(kind), LAMBDA cb : cb # callback)
                /\ \A other \in ListenerKinds \ {kind} :
                     Registered(other)' = Registered(other)]_vars

\* addScreenshot emitted itemAdded, delivered to callback 2 and then to
\* callback 1 as registered, and then itemProcessing, delivered to callback 1
\* alone.
C26_Witness ==
    /\ lastCall.op = "addScreenshot"
    /\ Registered("itemAdded") = <<2, 1>>
    /\ Registered("itemProcessing") = <<1>>
    /\ Len(delivered) = 3
    /\ delivered[1] = [callback |-> 2, kind |-> "itemAdded", id |-> lastCall.id, emit |-> 1]
    /\ delivered[2] = [callback |-> 1, kind |-> "itemAdded", id |-> lastCall.id, emit |-> 1]
    /\ delivered[3] = [callback |-> 1, kind |-> "itemProcessing", id |-> lastCall.id, emit |-> 2]

\* C27: whenever autoProcess is on, an item is pending and a slot is free,
\* the first pending item is eventually dispatched (it does not stay
\* pending) without a processNext() call of the caller, every awaited promise
\* settling and every timer firing.
C27_PendingIsDispatched ==
    \A id \in Ids :
        (Dispatchable /\ FindPending(queue) # 0 /\ queue[FindPending(queue)].id = id)
            ~> (StatusOf(id) # "pending")

\* C28: while an item is in the queue and not finished, the retry tracker's
\* count for its id (0 when absent) is the number of pipeline failures the
\* item has had, so the count is still there when the item is dispatched
\* again.
C28_TrackerCountsFailures ==
    \A id \in DOMAIN attempts :
        (StatusOf(id) \in {"pending", "processing"} /\ attempts[id] < MaxAttempts)
            => MapGet(retryCounts, id) = FailuresOf(id)

\* C29: in every reachable state each id with an entry in the retry tracker
\* is the id of an item of the queue that has failed at least once and is
\* pending or processing; a completed, errored, removed or cleared item has
\* no entry.
C29_TrackerOnlyForRetrying ==
    \A id \in DOMAIN retryCounts :
        /\ id \in QueueIds
        /\ StatusOf(id) \in {"pending", "processing"}
        /\ id \in DOMAIN attempts => FailuresOf(id) >= 1

\* An item failed at least twice and is in the queue in error, and the
\* pipeline of an item that had been removed has just failed; the tracker has
\* an entry for neither.
C29_Witness ==
    \E a, b \in Ids :
        /\ StatusOf(a) = "error"
        /\ attempts[a] >= 2
        /\ b \notin QueueIds
        /\ FailureHandled(b)
        /\ DOMAIN retryCounts \cap {a, b} = {}

\* C30: when the pipeline of an item of the queue fails and the item has
\* already failed retryAttempts times (never, when retryAttempts = 0), the
\* item becomes 'error' with the failure's message as metadata.error, has no
\* retry tracker entry, leaves the in-flight set, exactly one itemError is
\* emitted, no retry timer is scheduled and, with autoProcess on, the freed
\* slot is offered to the next pending item.
C30_ExhaustedFailureIsTerminal ==
    [][\A id \in Ids :
         (/\ FailureHandled(id)'
          /\ StatusOf(id) = "processing"
          /\ attempts[id] < MaxAttempts
          /\ FailuresOf(id) = config.retryAttempts)
         => /\ StatusOf(id)' = "error"
            /\ MetadataOf(id)'.error = FailureMessage
            /\ id \notin DOMAIN retryCounts'
            /\ id \notin processingQueue'
            /\ Cardinality({ k \in DOMAIN emitted' : emitted'[k].kind = "itemError" }) = 1
            /\ EmittedFor("itemError")' = {id}
            /\ timers' = timers
            /\ ~Dispatchable']_vars

\* C31: when the pipeline of an item of the queue fails and the item has
\* failed fewer than retryAttempts times before, the item is 'pending' again
\* with its id out of the in-flight set and its metadata unset, and no event
\* is emitted for it.
C31_TransientFailureRequeues ==
    [][\A id \in Ids :
         (/\ FailureHandled(id)'
          /\ StatusOf(id) = "processing"
          /\ attempts[id] < MaxAttempts
          /\ FailuresOf(id) < config.retryAttempts)
         => /\ StatusOf(id)' = "pending"
            /\ id \notin processingQueue'
            /\ MetadataOf(id)' = NoMetadata
            /\ \A k \in DOMAIN emitted' : emitted'[k].id # id]_vars

\* C32: every change of the status of an item of the queue is pending ->
\* processing (the step dispatched it), processing -> completed (its second
\* stage resolved), processing -> pending (its pipeline failed and the catch
\* block found a retry left) or processing -> error (its pipeline failed and
\* the catch block found none left).
C32_StatusTransitions ==
    [][\A id \in QueueIds \cap QueueIds' :
         StatusOf(id) # StatusOf(id)' =>
           \/ /\ StatusOf(id) = "pending" /\ StatusOf(id)' = "processing"
              /\ id \in EmittedFor("itemProcessing")'
           \/ /\ StatusOf(id) = "processing" /\ StatusOf(id)' = "completed"
              /\ lastCall' = Caller("generateSolution resolved", id, TRUE)
           \/ /\ StatusOf(id) = "processing" /\ StatusOf(id)' = "pending"
              /\ FailureHandled(id)'
              /\ MapGet(retryCounts, id) < config.retryAttempts
           \/ /\ StatusOf(id) = "processing" /\ StatusOf(id)' = "error"
              /\ FailureHandled(id)'
              /\ ~(MapGet(retryCounts, id) < config.retryAttempts)]_vars

\* One item has ended in error, and another has just failed and is pending
\* again.
C32_Witness ==
    \E a, b \in Ids :
        /\ StatusOf(a) = "error"
        /\ FailureHandled(b)
        /\ StatusOf(b) = "pending"

\* C33: in every reachable state the in-flight set is the set of the ids of
\* the queue items with status 'processing', so that getProcessingCount()
\* equals getQueueStats().processing.
C33_InFlightIsProcessing ==
    /\ processingQueue = { queue[i].id : i \in { j \in DOMAIN queue : queue[j].status = "processing" } }
    /\ GetProcessingCount = GetQueueStats.processing

\* A processing item was removed while another stays in flight.
C33_Witness ==
    /\ lastCall.op = "removeScreenshot"
    /\ \E k \in DOMAIN emitted : emitted[k].kind = "itemRemoved" /\ emitted[k].status = "processing"
    /\ GetProcessingCount = 1
    /\ GetQueueStats.processing = 1

\* C34: for every item id at most one pipeline execution is outstanding at
\* any time: one awaited Solver promise at most, awaited once.
C34_OneExecutionPerItem ==
    \A id \in Ids :
        /\ Cardinality(Outstanding(id)) <= 1
        /\ \A c \in Outstanding(id) : CopiesIn(c, calls) = 1

\* processNext() was called with a slot free while the only item of the
\* queue was awaiting the Solver, and started nothing.
C34_Witness ==
    /\ lastCall.op = "processNext"
    /\ emitted = <<>>
    /\ Len(queue) = 1
    /\ Outstanding(queue[1].id) # {}
    /\ InFlight < config.maxConcurrent

\* C35: generateSolution is invoked only when processWithAI of the same
\* execution has resolved, and with exactly its result; when processWithAI
\* rejects, generateSolution is not invoked for that execution; a rejection of
\* either stage is retried (a timer, no itemError) when the catch block finds
\* a retry left and is a terminal error otherwise; and an item that completes
\* holds the problem statement stage one gave for its screenshot and the
\* solution stage two gave for that problem statement.
C35_StagesInSequence ==
    [][/\ \A c \in BagToSet(calls') :
            (c.stage = 2 /\ CopiesIn(c, calls') > CopiesIn(c, calls))
            => /\ lastCall' = Caller("processWithAI resolved", c.id, TRUE)
               /\ \E c1 \in Outstanding(c.id) :
                     /\ c1.stage = 1
                     /\ c.arg = ProblemStatement(c1.arg)
                     /\ c1 \notin BagToSet(calls')
       /\ \A id \in QueueIds :
            /\ lastCall' = Caller("processWithAI rejected", id, FALSE)
                 => \A c \in Outstanding(id)' : c.stage = 1
            /\ FailureHandled(id)'
                 => IF MapGet(retryCounts, id) < config.retryAttempts
                    THEN /\ id \notin EmittedFor("itemError")'
                         /\ BagCardinality(timers') = BagCardinality(timers) + 1
                    ELSE /\ StatusOf(id)' = "error"
                         /\ id \in EmittedFor("itemError")'
                         /\ timers' = timers
            /\ lastCall' = Caller("generateSolution resolved", id, TRUE)
                 => /\ StatusOf(id)' = "completed"
                    /\ MetadataOf(id)'.problemStatement = ProblemStatement(PathOf(id))
                    /\ MetadataOf(id)'.solution = SolutionCode(ProblemStatement(PathOf(id)))]_vars

\* Two screenshots were in the pipeline at the same time, and the one of the
\* second path has completed while the other one's second stage has just
\* rejected.
C35_Witness ==
    /\ lastCall.op = "generateSolution rejected"
    /\ Len(queue) = 2
    /\ queue[1].path = "/test1.png"
    /\ queue[2].path = "/test2.png"
    /\ lastCall.id = queue[1].id
    /\ queue[2].status = "completed"
    /\ queue[2].metadata.solution = SolutionCode(ProblemStatement("/test2.png"))

\* C36: updateConfig(partial) gives the config fields named in partial the
\* values of partial and leaves the other fields, the queue with every item's
\* status and metadata, the in-flight set and the retry tracker as they were;
\* it emits no event and starts no dispatch.
C36_UpdateConfigFrame ==
    [][\A newConfig \in PartialConfig :
         (lastCall'.op = "updateConfig" /\ UpdateConfig(newConfig))
         => /\ \A f \in ConfigFields :
                 config'[f] = IF f \in DOMAIN newConfig THEN newConfig[f] ELSE config[f]
            /\ queue' = queue
            /\ processingQueue' = processingQueue
            /\ retryCounts' = retryCounts
            /\ emitted' = <<>>
            /\ calls' = calls
            /\ timers' = timers]_vars

\* updateConfig has just left the manager with autoProcess on, an item
\* pending and a slot free, and nothing in flight.
C36_Witness ==
    /\ lastCall.op = "updateConfig"
    /\ Dispatchable
    /\ processingQueue = {}
    /\ calls = EmptyBag

\* C37: a listener that throws does not corrupt scheduling: addScreenshot
\* and processNext end normally, an item whose second stage has just resolved
\* is 'completed', and every id in the in-flight set belongs to an item whose
\* pipeline is running.
C37_ListenerFailureContained ==
    /\ lastCall.op \in {"addScreenshot", "processNext"} => lastCall.ok
    /\ \A id \in QueueIds :
          lastCall = Caller("generateSolution resolved", id, TRUE)
              => StatusOf(id) = "completed"
    /\ \A id \in processingQueue : Outstanding(id) # {}

\* C38: getQueueStats(), getQueue() and getProcessingCount() leave the queue,
\* the in-flight set, the retry tracker and the config as they are; getQueue()
\* returns the items of the queue in queue order, and pushing on or popping
\* off the array it returned leaves the scheduler's queue as it is.
C38_GettersChangeNothing ==
    [][/\ lastCall'.op \in {"getQueueStats", "getQueue", "getProcessingCount",
                           "returned.push", "returned.pop"}
            => /\ queue' = queue
               /\ processingQueue' = processingQueue
               /\ retryCounts' = retryCounts
               /\ config' = config
       /\ lastCall'.op = "getQueue"
            => returned'.array = [i \in DOMAIN queue |-> queue[i].id]]_vars

\* The caller has popped the array getQueue() returned empty while the queue
\* still holds its item.
C38_Witness ==
    /\ lastCall.op = "returned.pop"
    /\ returned.array = <<>>
    /\ Len(queue) > 0

\* C39: once the hook's listeners have handled the events of a step,
\* isProcessing is true exactly when the manager has an item in 'processing'.
C39_IsProcessingTracksManager == hook.isProcessing <=> GetProcessingCount > 0

\* C40: once the hook's listeners have handled the events of a step, the
\* hook's queue holds the ids of manager.getQueue() in the same order, each
\* with the status the manager has for it.
C40_HookMirrorsQueue ==
    /\ Len(hook.queue) = Len(queue)
    /\ \A i \in DOMAIN hook.queue :
          i \in DOMAIN queue
              => /\ hook.queue[i].id = queue[i].id
                 /\ HookStatus(i) = queue[i].status

====
